---------------------------- MODULE Spec2Model ----------------------------
(***************************************************************************)
(* Model of the useFormValidator hook (src/src/hook/form-validator.ts):    *)
(* the rule-set normaliser updateRules, the validation engine validate,    *)
(* the published isValid flag and the live re-validation effect.  The hook *)
(* is taken with no options: the default email and URL expressions, the    *)
(* default date format and the default "Validation." translation prefix.   *)
(***************************************************************************)
EXTENDS Integers, Sequences, FiniteSets, TLC

VARIABLES
    declared,       \* the declaration last handed to updateRules
    rules,          \* rules.current: sequence of IKeyRule
    errors,         \* the errors state published by setErrors
    flagValidated,  \* flagValidated.current
    dataRef,        \* dataRef.current
    props,          \* the host's props.data: [hasData, data]
    isValid,        \* the memoised isValid of the last render
    call            \* record of the last validate call

vars == <<declared, rules, errors, flagValidated, dataRef, props, isValid, call>>

---------------------------------------------------------------------------
(* JavaScript values.  Every value is a record [t, s, n]: t is the kind,   *)
(* s the characters of a string, n the number.                             *)

Undefined == [t |-> "undefined", s |-> <<>>, n |-> 0]
Null      == [t |-> "null",      s |-> <<>>, n |-> 0]
NaN       == [t |-> "nan",       s |-> <<>>, n |-> 0]
Bool(b)   == [t |-> "boolean",   s |-> <<>>, n |-> IF b THEN 1 ELSE 0]
Num(k)    == [t |-> "number",    s |-> <<>>, n |-> k]
Str(cs)   == [t |-> "string",    s |-> cs,   n |-> 0]
Obj       == [t |-> "object",    s |-> <<>>, n |-> 0]
DateObj(ms) == [t |-> "date",    s |-> <<>>, n |-> ms]
RegExp(name) == [t |-> "regexp", s |-> <<name>>, n |-> 0]

\* JavaScript truthiness: what !value negates.
TruthyUnlessNullish(v) == v.t \notin {"undefined", "null"}
Truthy(v) ==
    CASE v.t = "undefined" -> FALSE
      [] v.t = "null"      -> FALSE
      [] v.t = "nan"       -> FALSE
      [] v.t = "boolean"   -> v.n = 1
      [] v.t = "number"    -> v.n # 0
      [] v.t = "string"    -> v.s # <<>>
      [] OTHER             -> TRUE

\* typeof value
TypeOf(v) ==
    CASE v.t = "nan"     -> "number"
      [] v.t = "null"    -> "object"
      [] v.t = "date"    -> "object"
      [] v.t = "regexp"  -> "object"
      [] OTHER           -> v.t

Digit == <<"0", "1", "2", "3", "4", "5", "6", "7", "8", "9">>
Digits == {Digit[i] : i \in 1..10}
Letters ==
    {"a", "b", "c", "d", "e", "f", "g", "h", "i", "j", "k", "l", "m", "n", "o", "p", "q",
     "r", "s", "t", "u", "v", "w", "x", "y", "z", "A", "B", "C", "D", "E", "F", "G", "H",
     "I", "J", "K", "L", "M", "N", "O", "P", "Q", "R", "S", "T", "U", "V", "W", "X", "Y",
     "Z"}

RECURSIVE NatToString(_)
NatToString(k) ==
    IF k < 10 THEN <<Digit[k + 1]>>
    ELSE NatToString(k \div 10) \o <<Digit[(k % 10) + 1]>>

\* String(value): the coercion RegExp.prototype.test applies to its argument.
JsString(v) ==
    CASE v.t = "string"    -> v.s
      [] v.t = "number"    -> IF v.n < 0 THEN <<"-">> \o NatToString(-v.n)
                              ELSE NatToString(v.n)
      [] v.t = "nan"       -> <<"N", "a", "N">>
      [] v.t = "boolean"   -> IF v.n = 1 THEN <<"t", "r", "u", "e">>
                              ELSE <<"f", "a", "l", "s", "e">>
      [] v.t = "null"      -> <<"n", "u", "l", "l">>
      [] OTHER             -> <<"u", "n", "d", "e", "f", "i", "n", "e", "d">>

AllIn(cs, from, to, class) == \A i \in from..to : cs[i] \in class

\* /^[a-zA-Z0-9._%+-]+@[a-zA-Z0-9.-]+\.[a-zA-Z]{2,}$/
emailRegex(cs) ==
    \E at \in 2..Len(cs), dot \in 2..Len(cs) :
        /\ cs[at] = "@"
        /\ cs[dot] = "."
        /\ at + 1 < dot
        /\ dot + 2 <= Len(cs)
        /\ AllIn(cs, 1, at - 1, Letters \cup Digits \cup {".", "_", "%", "+", "-"})
        /\ AllIn(cs, at + 1, dot - 1, Letters \cup Digits \cup {".", "-"})
        /\ AllIn(cs, dot + 1, Len(cs), Letters)

\* /^(http|https):\/\/[^ "]+$/
urlRegex(cs) ==
    \E p \in {<<"h", "t", "t", "p", ":", "/", "/">>,
              <<"h", "t", "t", "p", "s", ":", "/", "/">>} :
        /\ Len(cs) > Len(p)
        /\ SubSeq(cs, 1, Len(p)) = p
        /\ \A i \in (Len(p) + 1)..Len(cs) : cs[i] \notin {" ", "\""}

\* /^[0-9]+$/, the caller's pattern
digitsRegex(cs) == Len(cs) > 0 /\ AllIn(cs, 1, Len(cs), Digits)

\* regex.test(value)
RegexTest(re, v) ==
    LET cs == JsString(v) IN
    CASE re.s = <<"email">>  -> emailRegex(cs)
      [] re.s = <<"url">>    -> urlRegex(cs)
      [] re.s = <<"digits">> -> digitsRegex(cs)
      [] OTHER               -> FALSE

---------------------------------------------------------------------------
(* Dates.  A moment is [valid, ms].  The calendar is compressed: the year  *)
(* string "2025" denotes the instant 2025000 ms, and only four-digit year  *)
(* strings parse.                                                          *)

InvalidMoment == [valid |-> FALSE, ms |-> 0]

RECURSIVE StringToNat(_)
StringToNat(cs) ==
    IF cs = <<>> THEN 0
    ELSE LET d == CHOOSE i \in 1..10 : Digit[i] = cs[Len(cs)]
         IN  10 * StringToNat(SubSeq(cs, 1, Len(cs) - 1)) + (d - 1)

\* moment(x)
Moment(v) ==
    CASE v.t = "date"   -> [valid |-> TRUE, ms |-> v.n]
      [] v.t = "number" -> [valid |-> TRUE, ms |-> v.n]
      [] v.t = "string" ->
            IF Len(v.s) = 4 /\ digitsRegex(v.s)
            THEN [valid |-> TRUE, ms |-> 1000 * StringToNat(v.s)]
            ELSE InvalidMoment
      [] OTHER          -> InvalidMoment

\* moment(target).format(undefined) read back by moment(date): the default
\* format has no milliseconds, so the instant is cut to the second.
FormatDate(m) ==
    IF m.valid THEN [valid |-> TRUE, ms |-> m.ms - (m.ms % 1000)] ELSE InvalidMoment

isBefore(a, b)       == a.valid /\ b.valid /\ a.ms < b.ms
isSameOrBefore(a, b) == a.valid /\ b.valid /\ a.ms <= b.ms
isAfter(a, b)        == a.valid /\ b.valid /\ a.ms > b.ms
isSameOrAfter(a, b)  == a.valid /\ b.valid /\ a.ms >= b.ms

---------------------------------------------------------------------------
(* Rules.  A check option is absent, a bare value, or an override record   *)
(* {value, message}.                                                       *)

Absent     == [kind |-> "absent", value |-> Undefined, message |-> Undefined]
Bare(v)    == [kind |-> "bare",   value |-> v,         message |-> Undefined]
Over(v, m) == [kind |-> "record", value |-> v,         message |-> m]

\* if (rule.check): the option is truthy
OptTruthy(opt) == opt.kind = "record" \/ (opt.kind = "bare" /\ Truthy(opt.value))
\* if (rule.check !== undefined)
OptDefined(opt) == opt.kind # "absent"

isRuleMessage(opt) == opt.kind = "record"

\* typeof opt === "number" ? opt : opt.value, and isRuleMessage(opt) ? opt.value : opt
OptValue(opt) == opt.value

BuiltIns == <<"isEmail", "isURL", "minLength", "maxLength", "pattern", "min", "max",
              "ltDate", "lteDate", "gtDate", "gteDate">>
OptionNames == {"required"} \cup {BuiltIns[i] : i \in DOMAIN BuiltIns}

\* An IKeyRule: its key, the options it declares (opts maps each declared
\* option of OptionNames to its declaration), its custom function and its
\* blockly source ("none" when absent).  NoChecks declares nothing.
NoChecks(key) ==
    [key |-> key, opts |-> [c \in {} |-> Absent], custom |-> "none", blockly |-> "none"]

\* Opt(rule, check) for an option of OptionNames
Opt(rule, check) == IF check \in DOMAIN rule.opts THEN rule.opts[check] ELSE Absent

\* {...rule, [check]: o}
Declare(rule, check, o) ==
    CASE check = "custom"  -> [rule EXCEPT !.custom = o]
      [] check = "blockly" -> [rule EXCEPT !.blockly = o]
      [] OTHER ->
            [rule EXCEPT !.opts = [c \in DOMAIN rule.opts \cup {check} |->
                                     IF c = check THEN o ELSE rule.opts[c]]]

\* updateRules: a boolean declaration becomes {key, required: true}, any
\* other declaration is copied and tagged with its key.
Normalize(d) ==
    IF d.shorthand THEN Declare(NoChecks(d.key), "required", Bare(Bool(TRUE)))
    ELSE [d.rule EXCEPT !.key = d.key]

UpdatedRules(decl) == [i \in DOMAIN decl |-> Normalize(decl[i])]

\* For each declared key, whether its declaration was the boolean shorthand.
Declared(decl) ==
    [i \in DOMAIN decl |-> [key |-> decl[i].key, shorthand |-> decl[i].shorthand]]

\* getTranslation(key, values) with no translation prefix configured:
\* t("Validation." + key, values).  arg is the interpolated value.
getTranslation(key, arg) == [t |-> "string", s |-> <<"Validation.", key>>, n |-> arg]

---------------------------------------------------------------------------
(* Caller-supplied logic.  A call either throws or returns a value.        *)

Returns(v) == [threw |-> FALSE, ret |-> v]
Throws     == [threw |-> TRUE,  ret |-> Undefined]

John == Str(<<"J", "o", "h", "n">>)
InvalidName == Str(<<"I", "n", "v", "a", "l", "i", "d", " ", "n", "a", "m", "e">>)
NotJohn == Str(<<"N", "o", "t", " ", "J", "o", "h", "n">>)

\* rule.custom(data, key), for the custom functions the model draws from.
CallCustom(custom, data, key) ==
    CASE custom = "true"      -> Returns(Bool(TRUE))
      [] custom = "false"     -> Returns(Bool(FALSE))
      [] custom = "message"   -> Returns(InvalidName)
      [] custom = "empty"     -> Returns(Str(<<>>))
      [] custom = "one"       -> Returns(Num(1))
      [] custom = "object"    -> Returns(Obj)
      [] custom = "undefined" -> Returns(Undefined)
      [] custom = "null"      -> Returns(Null)
      [] custom = "isJohn"    -> Returns(Bool(data[key] = John))
      [] custom = "johnOrMessage" ->
            IF data[key] = John THEN Returns(Bool(TRUE)) ELSE Returns(InvalidName)
      [] OTHER                -> Throws   \* "throws"

\* new Function("data", rule.blockly)(data), for the sources the model draws from.
RunBlockly(source, data, key) ==
    CASE source = "return true"      -> Returns(Bool(TRUE))
      [] source = "return false"     -> Returns(Bool(FALSE))
      [] source = "return 'Not John'" -> Returns(NotJohn)
      [] source = "return 1"         -> Returns(Num(1))
      [] source = "return"           -> Returns(Undefined)
      [] source = "john ? true : 'Not John'" ->
            IF data[key] = John THEN Returns(Bool(TRUE)) ELSE Returns(NotJohn)
      [] source = "throw 1"          -> Throws
      [] OTHER                       -> Throws   \* "return (": does not compile

---------------------------------------------------------------------------
(* validate.  acc is the call in progress: the local errors object, the    *)
(* checks whose comparator ran, the message lookups made, and whether an   *)
(* exception is propagating.                                               *)

EmptyMap == [k \in {} |-> Undefined]

NewAcc ==
    [errors |-> EmptyMap, evaluated |-> <<>>, failed |-> <<>>, lookups |-> <<>>,
     threw |-> FALSE]

\* errors[key] = message
SetErrorFirstWins(e, key, message) ==
    IF key \in DOMAIN e THEN e
    ELSE [k \in DOMAIN e \cup {key} |-> IF k = key THEN message ELSE e[k]]
SetError(e, key, message) ==
    [k \in DOMAIN e \cup {key} |-> IF k = key THEN message ELSE e[k]]

\* errors[key] = isRuleMessage(opt) ? opt.message : getTranslation(msgKey, {value: arg})
FailAlwaysLookup(acc, key, check, opt, msgKey, arg) ==
    [acc EXCEPT !.errors = SetError(@, key, getTranslation(msgKey, arg)),
                !.failed = Append(@, <<key, check>>),
                !.lookups = Append(@, <<key, check>>)]
Fail(acc, key, check, opt, msgKey, arg) ==
    IF isRuleMessage(opt)
    THEN [acc EXCEPT !.errors = SetError(@, key, opt.message),
                     !.failed = Append(@, <<key, check>>)]
    ELSE [acc EXCEPT !.errors = SetError(@, key, getTranslation(msgKey, arg)),
                     !.failed = Append(@, <<key, check>>),
                     !.lookups = Append(@, <<key, check>>)]

\* value.length, undefined for what is not a string
HasLength(v) == v.t = "string"
\* ToNumber(value), as the relational operators apply it; NaN compares false
IsNumeric(v) ==
    \/ v.t \in {"number", "boolean", "null"}
    \/ v.t = "string" /\ (v.s = <<>> \/ digitsRegex(v.s))
ToNumber(v) == IF v.t = "string" THEN StringToNat(v.s) ELSE v.n

\* The comparison target of a date check, formatted and parsed back.
DateTarget(opt) == FormatDate(Moment(OptValue(opt)))

\* Whether the check's guard lets its comparator run on a non-null value.
Runs(rule, check) ==
    IF check \in {"minLength", "maxLength", "min", "max"}
    THEN OptDefined(Opt(rule, check))
    ELSE OptTruthy(Opt(rule, check))

\* The comparator of each built-in check: TRUE when the value fails it.
Fails(rule, check, value) ==
    LET opt == Opt(rule, check) IN
    CASE check = "isEmail"   -> ~RegexTest(RegExp("email"), value)
      [] check = "isURL"     -> ~RegexTest(RegExp("url"), value)
      [] check = "minLength" -> HasLength(value) /\ Len(value.s) < OptValue(opt).n
      [] check = "maxLength" -> HasLength(value) /\ Len(value.s) > OptValue(opt).n
      [] check = "pattern"   -> ~RegexTest(OptValue(opt), value)
      [] check = "min"       -> IsNumeric(value) /\ ToNumber(value) < OptValue(opt).n
      [] check = "max"       -> IsNumeric(value) /\ ToNumber(value) > OptValue(opt).n
      [] check = "ltDate"    -> ~isBefore(Moment(value), DateTarget(opt))
      [] check = "lteDate"   -> ~isSameOrBefore(Moment(value), DateTarget(opt))
      [] check = "gtDate"    -> ~isAfter(Moment(value), DateTarget(opt))
      [] check = "gteDate"   -> ~isSameOrAfter(Moment(value), DateTarget(opt))

\* The default message key of each check and the value interpolated in it.
MessageKey(check) ==
    CASE check = "required"  -> "This field is required"
      [] check = "isEmail"   -> "Invalid email address"
      [] check = "isURL"     -> "Invalid URL"
      [] check = "minLength" -> "Minimum length is {{value}}"
      [] check = "maxLength" -> "Maximum length is {{value}}"
      [] check = "pattern"   -> "Invalid value"
      [] check = "min"       -> "Minimum value is {{value}}"
      [] check = "max"       -> "Maximum value is {{value}}"
      [] check = "ltDate"    -> "Date must be before {{value}}"
      [] check = "lteDate"   -> "Date must be on or before {{value}}"
      [] check = "gtDate"    -> "Date must be after {{value}}"
      [] check = "gteDate"   -> "Date must be on or after {{value}}"
MessageArg(rule, check) ==
    CASE check \in {"minLength", "maxLength", "min", "max"} -> OptValue(Opt(rule, check)).n
      [] check \in {"ltDate", "lteDate", "gtDate", "gteDate"} -> DateTarget(Opt(rule, check)).ms
      [] OTHER -> 0

\* One built-in check of the else-if branch: guard, comparator, message.
BuiltIn(acc, rule, check, value) ==
    IF ~Runs(rule, check) THEN acc
    ELSE LET a == [acc EXCEPT !.evaluated = Append(@, <<rule.key, check>>)]
         IN  IF Fails(rule, check, value)
             THEN Fail(a, rule.key, check, Opt(rule, check), MessageKey(check),
                       MessageArg(rule, check))
             ELSE a

\* The built-in checks from position i on, in source order.
RECURSIVE BuiltInsFrom(_, _, _, _)
BuiltInsFrom(acc, rule, i, value) ==
    IF i > Len(BuiltIns) THEN acc
    ELSE BuiltInsFrom(BuiltIn(acc, rule, BuiltIns[i], value), rule, i + 1, value)

\* if (Opt(rule, "required") && !value) ... else if (value !== undefined && value !== null) ...
RequiredOrBuiltInsNoElse(acc, rule, value) ==
    LET a == IF OptTruthy(Opt(rule, "required"))
             THEN [acc EXCEPT !.evaluated = Append(@, <<rule.key, "required">>)]
             ELSE acc
        b == IF OptTruthy(Opt(rule, "required")) /\ ~Truthy(value)
             THEN Fail(a, rule.key, "required", Opt(rule, "required"), MessageKey("required"), 0)
             ELSE a
    IN  IF value # Undefined /\ value # Null THEN BuiltInsFrom(b, rule, 1, value) ELSE b
RequiredOrBuiltIns(acc, rule, value) ==
    LET a == IF OptTruthy(Opt(rule, "required"))
             THEN [acc EXCEPT !.evaluated = Append(@, <<rule.key, "required">>)]
             ELSE acc
    IN  IF OptTruthy(Opt(rule, "required")) /\ ~Truthy(value)
        THEN Fail(a, rule.key, "required", Opt(rule, "required"), MessageKey("required"), 0)
        ELSE IF value # Undefined /\ value # Null
             THEN BuiltInsFrom(a, rule, 1, value)
             ELSE a

\* if (!valid || typeof valid === "string") errors[key] = valid || getTranslation("Invalid value")
ResultFails(valid) == ~Truthy(valid) \/ TypeOf(valid) = "string"
ApplyResult(acc, key, check, valid) ==
    IF ~ResultFails(valid) THEN acc
    ELSE IF Truthy(valid)
         THEN [acc EXCEPT !.errors = SetError(@, key, valid),
                          !.failed = Append(@, <<key, check>>)]
         ELSE Fail(acc, key, check, Absent, "Invalid value", 0)

\* if (rule.custom) { const valid = rule.custom(data, key); ... }: not guarded
CustomCheck(acc, rule, data) ==
    IF rule.custom = "none" THEN acc
    ELSE LET a == [acc EXCEPT !.evaluated = Append(@, <<rule.key, "custom">>)]
             r == CallCustom(rule.custom, data, rule.key)
         IN  IF r.threw THEN [a EXCEPT !.threw = TRUE]
             ELSE ApplyResult(a, rule.key, "custom", r.ret)

\* if (rule.blockly) { try { ... } catch (e) { errors[key] = ... } }
BlocklyCheckRethrows(acc, rule, data) ==
    IF rule.blockly = "none" THEN acc
    ELSE LET a == [acc EXCEPT !.evaluated = Append(@, <<rule.key, "blockly">>)]
             r == RunBlockly(rule.blockly, data, rule.key)
         IN  IF r.threw
             THEN [Fail(a, rule.key, "blockly", Absent, "Validation error (blockly)", 0)
                      EXCEPT !.threw = TRUE]
             ELSE ApplyResult(a, rule.key, "blockly", r.ret)
BlocklyCheck(acc, rule, data) ==
    IF rule.blockly = "none" THEN acc
    ELSE LET a == [acc EXCEPT !.evaluated = Append(@, <<rule.key, "blockly">>)]
             r == RunBlockly(rule.blockly, data, rule.key)
         IN  IF r.threw
             THEN Fail(a, rule.key, "blockly", Absent, "Validation error (blockly)", 0)
             ELSE ApplyResult(a, rule.key, "blockly", r.ret)

\* The body of the loop over rules.current for one rule.
ValidateRule(acc, rule, data) ==
    LET a == RequiredOrBuiltIns(acc, rule, data[rule.key])
        b == CustomCheck(a, rule, data)
    IN  IF b.threw THEN b ELSE BlocklyCheck(b, rule, data)

\* for (const rule of rules.current), left when an exception propagates
RECURSIVE ValidateFrom(_, _, _, _)
ValidateFrom(acc, rs, i, data) ==
    IF i > Len(rs) \/ acc.threw THEN acc
    ELSE ValidateFrom(ValidateRule(acc, rs[i], data), rs, i + 1, data)

\* validate(data): what the call returns, and what it hands to setErrors
\* (publish is FALSE when the call is left before setErrors).
ValidateResultKeepsErrors(rs, data) ==
    IF Len(rs) = 0
    THEN [outcome |-> "returned", verdict |-> TRUE, errors |-> EmptyMap,
          publish |-> FALSE, evaluated |-> <<>>, failed |-> <<>>, lookups |-> <<>>]
    ELSE LET acc == ValidateFrom(NewAcc, rs, 1, data)
         IN  [outcome   |-> IF acc.threw THEN "threw" ELSE "returned",
              verdict   |-> ~acc.threw /\ acc.errors = EmptyMap,
              errors    |-> acc.errors,
              publish   |-> ~acc.threw,
              evaluated |-> acc.evaluated,
              failed    |-> acc.failed,
              lookups   |-> acc.lookups]
ValidateResult(rs, data) ==
    IF Len(rs) = 0
    THEN [outcome |-> "returned", verdict |-> TRUE, errors |-> EmptyMap,
          publish |-> TRUE, evaluated |-> <<>>, failed |-> <<>>, lookups |-> <<>>]
    ELSE LET acc == ValidateFrom(NewAcc, rs, 1, data)
         IN  [outcome   |-> IF acc.threw THEN "threw" ELSE "returned",
              verdict   |-> ~acc.threw /\ acc.errors = EmptyMap,
              errors    |-> acc.errors,
              publish   |-> ~acc.threw,
              evaluated |-> acc.evaluated,
              failed    |-> acc.failed,
              lookups   |-> acc.lookups]

---------------------------------------------------------------------------
(* The hook.                                                               *)

Fields == {"firstname", "lastname"}

\* props.data ?? {}: a record with no key reads undefined everywhere
EmptyData == [k \in Fields |-> Undefined]
NoData == [hasData |-> FALSE, data |-> EmptyData]
WithData(d) == [hasData |-> TRUE, data |-> d]

\* useMemo(() => flagValidated.current && Object.keys(errors).length === 0, [errors])
IsValidMemoNoFlag(flag, e) == e = EmptyMap
IsValidMemo(flag, e) == flag /\ e = EmptyMap

\* JSON.stringify(data): undefined members are left out, NaN is written null
Stringify(d) == [k \in Fields |-> IF d[k] = NaN THEN Null ELSE d[k]]

NoCall ==
    [outcome |-> "none", data |-> EmptyData, live |-> FALSE, ruleCount |-> 0,
     verdict |-> FALSE, errors |-> EmptyMap, evaluated |-> <<>>, failed |-> <<>>,
     lookups |-> <<>>,
     prevErrors |-> EmptyMap, byEffect |-> FALSE]

\* One call validate(data, live) and the render that follows setErrors.
DoValidate(data, live, byEffect) ==
    \E r \in {ValidateResult(rules, data)} :
        /\ flagValidated' = (flagValidated \/ live)
        /\ errors' = IF r.publish THEN r.errors ELSE errors
        /\ isValid' = IF r.publish THEN IsValidMemo(flagValidated \/ live, r.errors)
                      ELSE isValid
        /\ call' = [outcome |-> r.outcome, data |-> data, live |-> live,
                    ruleCount |-> Len(rules), verdict |-> r.verdict,
                    errors |-> r.errors,
                    evaluated |-> r.evaluated, failed |-> r.failed,
                    lookups |-> r.lookups,
                    prevErrors |-> errors, byEffect |-> byEffect]

\* The live validation effect, run after a render with props.data = d.
LiveEffect(d) ==
    IF ~flagValidated \/ Stringify(dataRef) = Stringify(d)
    THEN UNCHANGED <<errors, flagValidated, dataRef, isValid, call>>
    ELSE /\ dataRef' = d
         /\ DoValidate(d, TRUE, TRUE)

\* The state after the first render and its effects, for props {data, rules}.
Mounted(decl, p) ==
    /\ declared = Declared(decl)
    /\ rules = UpdatedRules(decl)
    /\ errors = EmptyMap
    /\ flagValidated = FALSE
    /\ dataRef = p.data
    /\ props = p
    /\ isValid = IsValidMemo(FALSE, EmptyMap)
    /\ call = NoCall

---------------------------------------------------------------------------
(* The inputs the model draws from.                                        *)

\* The most checks one rule of the engine's inputs declares.
MaxChecks == 2

Ab    == Str(<<"a", "b">>)
Email == Str(<<"a", "@", "b", ".", "c", "o">>)
Url   == Str(<<"h", "t", "t", "p", ":", "/", "/", "x">>)
Year(y) == Str(NatToString(y))

EngineValues ==
    {Undefined, Null, NaN, Bool(FALSE), Bool(TRUE), Num(0), Num(3), Num(7),
     Str(<<>>), Ab, Year(2024), Year(2025), Year(2026), John, Email, Url}

OverrideMessage(check) == Str(<<"M", ":", check>>)

CheckNames == OptionNames \cup {"custom", "blockly"}

Customs == {"true", "false", "message", "empty", "one", "object", "undefined",
            "null", "johnOrMessage", "throws"}
Sources == {"return true", "return false", "return 'Not John'", "return 1", "return",
            "throw 1", "return ("}

\* The declarations of one check the model draws from.
Choices(check) ==
    LET both(v) == {Bare(v), Over(v, OverrideMessage(check))} IN
    CASE check \in {"required", "isEmail", "isURL"} -> both(Bool(TRUE))
      [] check \in {"minLength", "maxLength", "min", "max"} -> both(Num(3))
      [] check = "pattern" -> both(RegExp("digits"))
      [] check \in {"ltDate", "lteDate", "gtDate", "gteDate"} ->
            {Bare(Year(2025)), Over(DateObj(2025500), OverrideMessage(check))}
      [] check = "custom"  -> Customs
      [] check = "blockly" -> Sources

RECURSIVE WithChecks(_, _)
WithChecks(rs, checks) ==
    IF checks = {} THEN rs
    ELSE LET c == CHOOSE x \in checks : TRUE
         IN  WithChecks({Declare(r, c, o) : r \in rs, o \in Choices(c)},
                        checks \ {c})

\* The sets of at most MaxChecks checks a rule may declare.
CheckSets == {x \in SUBSET CheckNames : Cardinality(x) <= MaxChecks}

Shorthand(key) == [key |-> key, shorthand |-> TRUE, rule |-> NoChecks(key)]
Full(rule)     == [key |-> rule.key, shorthand |-> FALSE, rule |-> rule]

\* A few rules to put beside another field's.
CompanionRules(key) ==
    LET n == NoChecks(key)
        req == Declare(n, "required", Bare(Bool(TRUE)))
    IN  {Shorthand(key),
         Full(n),
         Full(Declare(n, "required", Over(Bool(TRUE), OverrideMessage("required")))),
         Full(Declare(Declare(n, "minLength", Bare(Num(3))),
                      "pattern", Bare(RegExp("digits")))),
         Full([Declare(req, "minLength", Bare(Num(3)))
                  EXCEPT !.custom = "johnOrMessage",
                         !.blockly = "john ? true : 'Not John'"]),
         Full([n EXCEPT !.custom = "throws"]),
         Full([req EXCEPT !.blockly = "return ("]),
         Full([n EXCEPT !.blockly = "throw 1"])}

CompanionValues == {Undefined, Null, Str(<<>>), Ab, John}

CompanionDecls ==
    {<<a, b>> : a \in CompanionRules("firstname"), b \in CompanionRules("lastname")}
    \cup {<<b, a>> : a \in CompanionRules("firstname"), b \in CompanionRules("lastname")}

HookDecls ==
    LET n == NoChecks("firstname") IN
    {<< >>,
     <<Shorthand("firstname"), Shorthand("lastname")>>,
     <<Full(Declare(Declare(n, "required", Bare(Bool(TRUE))),
                    "minLength", Bare(Num(3))))>>,
     <<Full([n EXCEPT !.custom = "johnOrMessage"])>>,
     <<Full([n EXCEPT !.custom = "throws"])>>}

HookData ==
    {[firstname |-> v, lastname |-> Undefined] : v \in {Null, Ab, John}}
    \cup {[firstname |-> John, lastname |-> Ab]}

---------------------------------------------------------------------------
(* The hook's life: props.rules and props.data change, validate is called. *)

Init == \E decl \in HookDecls, p \in {NoData} \cup {WithData(d) : d \in HookData} :
            Mounted(decl, p)

\* updateRules(options), called directly or by the rules listener
UpdateRules ==
    \E decl \in HookDecls :
        /\ declared' = Declared(decl)
        /\ rules' = UpdatedRules(decl)
        /\ UNCHANGED <<errors, flagValidated, dataRef, props, isValid, call>>

\* validate(data) and validate(data, false), called by the host
Validate ==
    \E d \in HookData, live \in BOOLEAN :
        /\ DoValidate(d, live, FALSE)
        /\ UNCHANGED <<declared, rules, dataRef, props>>

\* props.data becomes d; the live validation effect runs after the render
DataChange ==
    \E d \in HookData :
        /\ props' = WithData(d)
        /\ LiveEffect(d)
        /\ UNCHANGED <<declared, rules>>

\* props.data becomes undefined: the effect returns at once
DataRemoved ==
    /\ props.hasData
    /\ props' = NoData
    /\ UNCHANGED <<declared, rules, errors, flagValidated, dataRef, isValid, call>>

Next == UpdateRules \/ Validate \/ DataChange \/ DataRemoved

Spec == Init /\ [][Next]_vars

(* The engine alone: the hook is mounted with any rule declaration and any  *)
(* data of the engine's inputs, and the host submits props.data.            *)

InitEngine ==
    \/ \E cs \in CheckSets :
         \E r \in WithChecks({NoChecks("firstname")}, cs), v \in EngineValues :
            Mounted(<<Full(r)>>, WithData([firstname |-> v, lastname |-> Undefined]))
    \/ \E decl \in CompanionDecls, v \in CompanionValues, w \in CompanionValues :
            Mounted(decl, WithData([firstname |-> v, lastname |-> w]))

\* validate(props.data)
Submit ==
    /\ DoValidate(props.data, TRUE, FALSE)
    /\ UNCHANGED <<declared, rules, dataRef, props>>

NextEngine == Submit

SpecEngine == InitEngine /\ [][NextEngine]_vars

---------------------------------------------------------------------------
(* Properties.  The last call is read from `call`, the published map from  *)
(* `errors`; under SpecEngine `rules` are the rules of that call.          *)

Called == call.outcome # "none"

\* Every custom function the rule set holds returns when called on the data.
CustomsReturn(rs, data) ==
    \A i \in DOMAIN rs :
        rs[i].custom # "none" => ~CallCustom(rs[i].custom, data, rs[i].key).threw

\* The published entry of a field: its message, or Undefined for no entry.
Entry(e, key) == IF key \in DOMAIN e THEN e[key] ELSE Undefined

InSeq(x, sq) == \E i \in DOMAIN sq : sq[i] = x

\* The last check of `key` that wrote a message, or "none".
LastFailed(failed, key) ==
    LET own == {i \in DOMAIN failed : failed[i][1] = key} IN
    IF own = {} THEN "none"
    ELSE failed[CHOOSE i \in own : \A j \in own : j <= i][2]

DefaultMessage == getTranslation("Invalid value", 0)
BlocklyFaultMessage == getTranslation("Validation error (blockly)", 0)

\* C1: validate never throws, whatever the rules and the data: it returns
\* a verdict also when a custom function throws or a dynamic source faults.
C1_ValidateNeverThrows == call.outcome # "threw"

\* C2: when the dynamic check of a field F faults, errors[F] is the fixed
\* "Validation error (blockly)" message, the verdict is false, and every
\* other field's entry is what it is with F's dynamic check absent.
\* (Stated for rule sets whose custom functions return.)
C2_BlocklyFaultIsolated ==
    (Called /\ CustomsReturn(rules, call.data)) =>
        \A i \in DOMAIN rules :
            LET F == rules[i] IN
            (F.blockly # "none" /\ RunBlockly(F.blockly, call.data, F.key).threw) =>
                /\ call.outcome = "returned"
                /\ Entry(errors, F.key) = BlocklyFaultMessage
                /\ call.verdict = FALSE
                /\ LET without == [rules EXCEPT ![i].blockly = "none"]
                       other == ValidateResult(without, call.data).errors
                   IN  \A G \in Fields \ {F.key} : Entry(errors, G) = Entry(other, G)

C2_Witness ==
    /\ call.outcome = "returned"
    /\ Len(rules) = 2
    /\ rules[1].blockly = "return ("
    /\ Entry(errors, rules[1].key) = BlocklyFaultMessage
    /\ Opt(rules[2], "pattern") = Bare(RegExp("digits"))
    /\ call.data[rules[2].key] = Ab
    /\ Entry(errors, rules[2].key) = DefaultMessage

\* What the return contract asks of a check that returned r, the entry
\* being `before` when the check is left out.
Contract(r, entry, before) ==
    CASE r = Bool(TRUE)                 -> entry = before
      [] r.t = "string" /\ r.s # <<>>   -> entry = r
      [] r = Bool(FALSE)                -> entry = DefaultMessage
      [] OTHER                          -> entry # Undefined

\* C3: the value r a custom check returns decides the field's entry: true
\* leaves it untouched, a non-empty string becomes the entry, false gives
\* the default "Invalid value" message, and any other r that is not
\* exactly true gives the field an error; the dynamic check likewise.
C3_ReturnContract ==
    (Called /\ CustomsReturn(rules, call.data)) =>
        \A i \in DOMAIN rules :
            LET F == rules[i]
                noCustom == [rules EXCEPT ![i].custom = "none"]
                noBlockly == [rules EXCEPT ![i].blockly = "none"]
                c == CallCustom(F.custom, call.data, F.key)
                b == RunBlockly(F.blockly, call.data, F.key)
            IN  /\ (F.custom # "none" /\ F.blockly = "none") =>
                      Contract(c.ret, Entry(errors, F.key),
                               Entry(ValidateResult(noCustom, call.data).errors, F.key))
                /\ (F.blockly # "none" /\ ~b.threw) =>
                      Contract(b.ret, Entry(errors, F.key),
                               Entry(ValidateResult(noBlockly, call.data).errors, F.key))

\* Whether the custom / dynamic check of rule F writes a message, and which.
CustomFails(F, data) ==
    F.custom # "none" /\ ResultFails(CallCustom(F.custom, data, F.key).ret)
BlocklyFails(F, data) ==
    /\ F.blockly # "none"
    /\ LET b == RunBlockly(F.blockly, data, F.key) IN b.threw \/ ResultFails(b.ret)
ResultMessage(r) == IF Truthy(r) THEN r ELSE DefaultMessage
CustomMessage(F, data) == ResultMessage(CallCustom(F.custom, data, F.key).ret)
BlocklyMessage(F, data) ==
    LET b == RunBlockly(F.blockly, data, F.key) IN
    IF b.threw THEN BlocklyFaultMessage ELSE ResultMessage(b.ret)
OptionMessage(F, check) ==
    IF isRuleMessage(Opt(F, check)) THEN Opt(F, check).message
    ELSE getTranslation(MessageKey(check), MessageArg(F, check))

RequiredFails(F, data) == OptTruthy(Opt(F, "required")) /\ ~Truthy(data[F.key])

\* C4: for a field whose rule declares required and whose value is falsy,
\* no built-in check from isEmail to gteDate is evaluated, the custom and
\* the dynamic check are both invoked, and the entry is the message of the
\* one that fails (the later one if both do), else the required message.
\* (Stated for rule sets whose custom functions return.)
C4_RequiredShortCircuits ==
    (Called /\ CustomsReturn(rules, call.data)) =>
        \A i \in DOMAIN rules :
            LET F == rules[i] IN
            RequiredFails(F, call.data) =>
                /\ call.outcome = "returned"
                /\ \A k \in DOMAIN BuiltIns : ~InSeq(<<F.key, BuiltIns[k]>>, call.evaluated)
                /\ F.custom # "none" => InSeq(<<F.key, "custom">>, call.evaluated)
                /\ F.blockly # "none" => InSeq(<<F.key, "blockly">>, call.evaluated)
                /\ Entry(errors, F.key) =
                      IF BlocklyFails(F, call.data) THEN BlocklyMessage(F, call.data)
                      ELSE IF CustomFails(F, call.data) THEN CustomMessage(F, call.data)
                      ELSE OptionMessage(F, "required")

C4_Witness ==
    /\ call.outcome = "returned"
    /\ \E i \in DOMAIN rules :
         LET F == rules[i] IN
         /\ RequiredFails(F, call.data)
         /\ call.data[F.key] = Str(<<>>)
         /\ OptDefined(Opt(F, "minLength"))
         /\ F.custom # "none" /\ F.blockly # "none"
         /\ InSeq(<<F.key, "custom">>, call.evaluated)
         /\ InSeq(<<F.key, "blockly">>, call.evaluated)
         /\ Entry(errors, F.key) = NotJohn

\* The evaluation order the claim fixes.
ClaimOrder == <<"isEmail", "isURL", "minLength", "maxLength", "pattern", "min", "max",
                "ltDate", "lteDate", "gtDate", "gteDate", "custom", "dynamic">>

\* Whether the check at position k of ClaimOrder, applied to the field's
\* value, fails, and the message it then leaves.
FailsAt(F, data, k) ==
    LET check == ClaimOrder[k] IN
    CASE check = "custom"  -> CustomFails(F, data)
      [] check = "dynamic" -> BlocklyFails(F, data)
      [] OTHER             -> Runs(F, check) /\ Fails(F, check, data[F.key])
MessageAt(F, data, k) ==
    LET check == ClaimOrder[k] IN
    CASE check = "custom"  -> CustomMessage(F, data)
      [] check = "dynamic" -> BlocklyMessage(F, data)
      [] OTHER             -> OptionMessage(F, check)

\* The field's entry is the message of the last failing check of
\* ClaimOrder, and there is no entry when none fails.
LastFailingWins(F, data, e) ==
    LET failing == {k \in DOMAIN ClaimOrder : FailsAt(F, data, k)} IN
    IF failing = {} THEN Entry(e, F.key) = Undefined
    ELSE Entry(e, F.key) = MessageAt(F, data, CHOOSE k \in failing : \A j \in failing : j <= k)

NonNull(v) == v # Undefined /\ v # Null

\* C5 as stated: for every field and every non-null value the entry left
\* by validate is the message of the last failing check in the order
\* isEmail .. gteDate, custom, dynamic, and there is none iff none failed.
C5_LastWriteWinsEveryNonNull ==
    (Called /\ CustomsReturn(rules, call.data)) =>
        \A i \in DOMAIN rules :
            NonNull(call.data[rules[i].key]) =>
                LastFailingWins(rules[i], call.data, errors)

\* C5 amended: the same, for every non-null value that does not fail a
\* declared required check (a falsy value of a required field skips the
\* built-in checks and leaves the required message unless custom or
\* dynamic overwrite it).
C5_LastWriteWins ==
    (Called /\ CustomsReturn(rules, call.data)) =>
        \A i \in DOMAIN rules :
            (NonNull(call.data[rules[i].key]) /\ ~RequiredFails(rules[i], call.data)) =>
                /\ call.outcome = "returned"
                /\ LastFailingWins(rules[i], call.data, errors)

C5_Witness ==
    /\ call.outcome = "returned"
    /\ \E i \in DOMAIN rules :
         LET F == rules[i] IN
         /\ call.data[F.key] = Ab
         /\ Opt(F, "minLength") = Bare(Num(3)) /\ Opt(F, "pattern") = Bare(RegExp("digits"))
         /\ InSeq(<<F.key, "minLength">>, call.failed)
         /\ InSeq(<<F.key, "pattern">>, call.failed)
         /\ Entry(errors, F.key) = getTranslation("Invalid value", 0)

OnlyRequired(F) == F = Declare(NoChecks(F.key), "required", Opt(F, "required"))

\* C7 as stated: a field whose rule declares only required (the shorthand
\* field: true included) gets an error exactly when its value is absent /
\* undefined, null, the empty string, numeric zero or boolean false.
C7_RequiredOnlyAsStated ==
    (Called /\ CustomsReturn(rules, call.data)) =>
        \A i \in DOMAIN rules :
            (declared[i].shorthand \/ OnlyRequired(rules[i])) =>
                (Entry(errors, rules[i].key) # Undefined
                    <=> call.data[rules[i].key] \in
                            {Undefined, Null, Str(<<>>), Num(0), Bool(FALSE)})

\* C7 amended: ... exactly when its value is absent / undefined, null, the
\* empty string, numeric zero, NaN or boolean false; each such field gets
\* its entry whatever the other fields are.
C7_RequiredOnly ==
    (Called /\ CustomsReturn(rules, call.data)) =>
        \A i \in DOMAIN rules :
            (declared[i].shorthand \/ OnlyRequired(rules[i])) =>
                /\ call.outcome = "returned"
                /\ Entry(errors, rules[i].key) # Undefined
                     <=> call.data[rules[i].key] \in
                            {Undefined, Null, Str(<<>>), Num(0), NaN, Bool(FALSE)}

C7_Witness ==
    /\ call.outcome = "returned"
    /\ Len(rules) = 2
    /\ declared[1].shorthand /\ declared[2].shorthand
    /\ call.data = [firstname |-> Null, lastname |-> Null]
    /\ DOMAIN errors = {"firstname", "lastname"}

\* C8: whenever the rule set has no declared field, validate returns true
\* and publishes an empty error map, replacing the errors an earlier call
\* under a non-empty rule set had published.
C8_EmptyRulesAllValid ==
    (Called /\ call.ruleCount = 0) =>
        /\ call.outcome = "returned"
        /\ call.verdict = TRUE
        /\ errors = EmptyMap

C8_Witness ==
    /\ call.outcome = "returned"
    /\ call.ruleCount = 0
    /\ call.prevErrors # EmptyMap
    /\ errors = EmptyMap

\* C9: in every reachable state isValid is true only if validate has been
\* called explicitly at least once (the flag is set) and the published
\* error map is empty; before the first call isValid is false although the
\* error map is empty.
C9_IsValidOnlyAfterValidate ==
    /\ isValid => (flagValidated /\ errors = EmptyMap)
    /\ ~Called => (~isValid /\ errors = EmptyMap)

C9_Witness ==
    /\ isValid
    /\ flagValidated
    /\ call.outcome = "returned"
    /\ call.byEffect

\* C10: once validate has been called explicitly, every change of the
\* data prop to a record that differs from the previous data prop runs
\* validate on the new record, so that the published error map is then
\* the validation result of the current data prop.
\* (Stated for the changes on which validate returns.)
C10_LiveRevalidation ==
    [][ LET r == ValidateResult(rules, props'.data) IN
        (/\ flagValidated
         /\ props.hasData /\ props'.hasData
         /\ props'.data # props.data
         /\ r.outcome = "returned")
        => errors' = r.errors ]_vars

===========================================================================
